---- MODULE Spec2Model ----
(***************************************************************************)
(* Model of the eBay search proxy endpoint (api/ebay-search.js).           *)
(*                                                                         *)
(* Three revisions of the handler are present in the sources:              *)
(*   "basic"         src/api/ebay-search.js      (open CORS, inline price) *)
(*   "hardened"      src/unnamed/part_000:1-239  (allow-list CORS, rate    *)
(*                   limiter, sanitised query, 10 s timer)                 *)
(*   "comprehensive" src/unnamed/part_000:241-377 (open CORS, the          *)
(*                   comprehensive cleanPriceField)                        *)
(*                                                                         *)
(* JavaScript strings are modelled as sequences of chunks; the chunk " "   *)
(* is white space, every other chunk is a run of non-blank characters.     *)
(* JavaScript values are records [t |-> type, v |-> payload]; numbers are  *)
(* non-negative amounts counted in hundredths.                             *)
(***************************************************************************)
EXTENDS Integers, Sequences, FiniteSets, TLC

VARIABLES
    SERPAPI_KEY,      \* process.env.SERPAPI_KEY is set
    ALLOWED_ORIGINS,  \* process.env.ALLOWED_ORIGINS: a string, or Unset
    now,              \* Date.now()
    ticks,            \* number of clock advances so far
    rateLimitMap,     \* entries of the observed client IPs
    otherEntries,     \* entries of all other client IPs: resetTime -> how many
    pc,               \* per invocation: position of the handler
    req,              \* per invocation: the request
    res,              \* per invocation: the response sent, or NoResponse
    sent,             \* per invocation: number of responses sent
    timer,            \* per invocation: state of the 10 s abort timer
    query,            \* per invocation: the query parameters of the upstream call
    upstream,         \* per invocation: what the upstream has delivered so far
    window,           \* per IP: the calls observed in its current fixed window
    lastCall,         \* the last direct call of checkRateLimit and its result
    priceCall         \* the call of cleanPriceField under study and its result

envVars == <<SERPAPI_KEY, ALLOWED_ORIGINS>>
clockVars == <<now, ticks>>
rateVars == <<rateLimitMap, otherEntries, window, lastCall>>
invVars == <<pc, req, res, sent, timer, query, upstream>>
vars == <<SERPAPI_KEY, ALLOWED_ORIGINS, now, ticks, rateLimitMap, otherEntries,
          pc, req, res, sent, timer, query, upstream, window,
          lastCall, priceCall>>

(***************************************************************************)
(* Bounds of the model.                                                    *)
(***************************************************************************)
\* largest number of candidate fields set in a price object
MaxFields == 2
\* longest organic_results sequence
MaxResults == 2
\* number of clock advances in one behaviour
MaxTicks == 3
\* number of concurrent invocations in the concurrency specification
MaxConc == 2

(***************************************************************************)
(* Strings and values.                                                     *)
(***************************************************************************)
RECURSIVE TrimStart(_)
TrimStart(s) == IF s # <<>> /\ Head(s) = " " THEN TrimStart(Tail(s)) ELSE s

RECURSIVE TrimEnd(_)
TrimEnd(s) ==
    IF s # <<>> /\ s[Len(s)] = " " THEN TrimEnd(SubSeq(s, 1, Len(s) - 1)) ELSE s

\* String.prototype.trim
Trim(s) == TrimEnd(TrimStart(s))

Str(s) == [t |-> "string", v |-> s]
Num(n) == [t |-> "number", v |-> n]
Bool(b) == [t |-> "boolean", v |-> b]
Obj(f) == [t |-> "object", v |-> f]
Arr(a) == [t |-> "array", v |-> a]
Null == [t |-> "null", v |-> 0]
Undefined == [t |-> "undefined", v |-> 0]

\* ToBoolean
Truthy(x) ==
    CASE x.t = "string" -> x.v # <<>>
      [] x.t = "number" -> x.v # 0
      [] x.t = "boolean" -> x.v
      [] x.t = "object" -> TRUE
      [] x.t = "array" -> TRUE
      [] OTHER -> FALSE

\* property access obj.f on an object value
Get(x, f) == IF x.t = "object" /\ f \in DOMAIN x.v THEN x.v[f] ELSE Undefined

\* Number.prototype.toFixed(2) of an amount in hundredths
ToFixed2(n) ==
    ToString(n \div 100) \o "." \o ToString((n % 100) \div 10) \o ToString(n % 10)

\* outcome of a call: a returned value, or a thrown TypeError
Return(x) == [threw |-> FALSE, value |-> x]
Throw == [threw |-> TRUE, value |-> Str(<<"TypeError">>)]

PriceNotAvailable == Str(<<"Price", " ", "not", " ", "available">>)

(***************************************************************************)
(* cleanPriceField, the simplified revision.                               *)
(***************************************************************************)
cleanPriceFieldSimplified(priceData) ==
    IF priceData.t = "string" /\ Trim(priceData.v) # <<>>
    THEN Return(Str(Trim(priceData.v)))
    ELSE IF priceData.t = "object"
         THEN IF Truthy(Get(priceData, "raw")) /\ Get(priceData, "raw").t = "string"
              THEN Return(Get(priceData, "raw"))
              ELSE IF Get(priceData, "extracted_value").t = "number"
                   THEN Return(Str(<<"$" \o ToFixed2(Get(priceData, "extracted_value").v)>>))
                   ELSE Return(PriceNotAvailable)
         ELSE Return(PriceNotAvailable)

(***************************************************************************)
(* cleanPriceField, the comprehensive revision.                            *)
(***************************************************************************)
\* x ? `$${x.toFixed(2)}` : null  -- toFixed exists on numbers only
DollarAttempt(x) ==
    IF Truthy(x)
    THEN IF x.t = "number" THEN Return(Str(<<"$" \o ToFixed2(x.v)>>)) ELSE Throw
    ELSE Return(Null)

\* the array literal `attempts`, its elements evaluated in order
Attempts(priceData) ==
    <<Return(Get(priceData, "raw")),
      Return(Get(priceData, "formatted")),
      DollarAttempt(Get(priceData, "extracted_value")),
      DollarAttempt(Get(priceData, "extracted")),
      DollarAttempt(Get(priceData, "value")),
      DollarAttempt(Get(priceData, "amount")),
      DollarAttempt(Get(priceData, "price"))>>

ValidAttempt(a) == Truthy(a) /\ a.t = "string" /\ Trim(a.v) # <<>>

RECURSIVE FirstValid(_, _)
FirstValid(attempts, i) ==
    IF i > Len(attempts) THEN PriceNotAvailable
    ELSE IF ValidAttempt(attempts[i].value) THEN attempts[i].value
    ELSE FirstValid(attempts, i + 1)

cleanPriceFieldComprehensive(priceData) ==
    IF priceData.t = "string" THEN Return(priceData)
    ELSE IF ~Truthy(priceData) \/ priceData.t # "object" THEN Return(PriceNotAvailable)
    ELSE IF \E i \in 1..7 : Attempts(priceData)[i].threw THEN Throw
    ELSE Return(FirstValid(Attempts(priceData), 1))

\* the revisions of cleanPriceField, by the handler that calls them
cleanPriceField(variant, priceData) ==
    IF variant = "hardened" THEN cleanPriceFieldSimplified(priceData)
    ELSE cleanPriceFieldComprehensive(priceData)

(***************************************************************************)
(* The rate limiter.                                                       *)
(***************************************************************************)
RATE_LIMIT_WINDOW_MS == 60000
RATE_LIMIT_MAX_REQUESTS == 30
\* the map size above which checkRateLimit sweeps old entries
CLEANUP_THRESHOLD == 1000

\* the client whose calls are followed one by one
IPs == {<<"ipA">>}

NoCall == [ip |-> <<>>, at |-> 0, allowed |-> FALSE, nth |-> 0]

RECURSIVE SumCounts(_, _)
SumCounts(f, S) ==
    IF S = {} THEN 0
    ELSE LET x == CHOOSE y \in S : TRUE IN f[x] + SumCounts(f, S \ {x})

\* rateLimitMap.size
MapSize(map, others) == Cardinality(DOMAIN map) + SumCounts(others, DOMAIN others)

\* now > clientData.resetTime
WindowExpired(t, clientData) == t > clientData.resetTime

\* clientData.requests >= RATE_LIMIT_MAX_REQUESTS
OverLimitOffByOne(clientData) == clientData.requests > RATE_LIMIT_MAX_REQUESTS
OverLimit(clientData) == clientData.requests >= RATE_LIMIT_MAX_REQUESTS

\* the sweep of entries whose resetTime is older than now - window
Restrict(f, S) == [x \in S |-> f[x]]
Sweep(map, others, t) ==
    LET cutoff == t - RATE_LIMIT_WINDOW_MS IN
    [map |-> Restrict(map, {ip \in DOMAIN map : ~(map[ip].resetTime < cutoff)}),
     others |-> Restrict(others, {rt \in DOMAIN others : ~(rt < cutoff)})]

\* checkRateLimit that counts on a copy of the entry and stores nothing
checkRateLimitOnCopy(map, others, clientIP, t) ==
    [allowed |-> ~(clientIP \in DOMAIN map /\ ~WindowExpired(t, map[clientIP])
                   /\ OverLimit(map[clientIP])),
     map |-> IF clientIP \in DOMAIN map THEN map
             ELSE [ip \in {clientIP} |->
                     [requests |-> 1, resetTime |-> t + RATE_LIMIT_WINDOW_MS]],
     others |-> others]

\* checkRateLimit(clientIP) at time t: the result and the map it leaves
checkRateLimit(map, others, clientIP, t) ==
    LET found == IF clientIP \in DOMAIN map THEN map[clientIP]
                 ELSE [requests |-> 0, resetTime |-> t + RATE_LIMIT_WINDOW_MS]
        clientData == IF WindowExpired(t, found)
                      THEN [requests |-> 0, resetTime |-> t + RATE_LIMIT_WINDOW_MS]
                      ELSE found
        \* a stored entry is reset in place
        map1 == IF clientIP \in DOMAIN map THEN [map EXCEPT ![clientIP] = clientData]
                ELSE map
        counted == [clientData EXCEPT !.requests = @ + 1]
        map2 == [ip \in DOMAIN map1 \cup {clientIP} |->
                    IF ip = clientIP THEN counted ELSE map1[ip]]
    IN  IF OverLimit(clientData)
        THEN [allowed |-> FALSE, map |-> map1, others |-> others]
        ELSE IF MapSize(map2, others) > CLEANUP_THRESHOLD
             THEN [allowed |-> TRUE] @@ Sweep(map2, others, t)
             ELSE [allowed |-> TRUE, map |-> map2, others |-> others]

(***************************************************************************)
(* The fixed window of a client, as an observer sees it: a window opens    *)
(* with the first call made when none is open, and is open for             *)
(* RATE_LIMIT_WINDOW_MS; calls and passes are counted up to one past the   *)
(* maximum; afterDenial tells that a call was turned away in the window    *)
(* before.                                                                 *)
(***************************************************************************)
NoWindow ==
    [open |-> FALSE, ends |-> 0, calls |-> 0, passed |-> 0, fetches |-> 0,
     afterDenial |-> FALSE]

WindowOpen(w, t) == w.open /\ t <= w.ends

UpTo(n) == IF n > RATE_LIMIT_MAX_REQUESTS THEN RATE_LIMIT_MAX_REQUESTS + 1 ELSE n

\* the window of a client after a call at time t with the given result
Observe(w, t, allowed) ==
    LET cur == IF WindowOpen(w, t) THEN w
               ELSE [open |-> TRUE, ends |-> t + RATE_LIMIT_WINDOW_MS,
                     calls |-> 0, passed |-> 0, fetches |-> 0,
                     afterDenial |-> w.calls > RATE_LIMIT_MAX_REQUESTS]
    IN  [cur EXCEPT !.calls = UpTo(@ + 1),
                    !.passed = IF allowed THEN UpTo(@ + 1) ELSE @]

(***************************************************************************)
(* Requests, responses and the environment.                                *)
(***************************************************************************)
EmptyBody == [kind |-> "empty", error |-> <<>>, retryAfter |-> 0, data |-> Null]
ErrorBody(msg) == [kind |-> "error", error |-> msg, retryAfter |-> 0, data |-> Null]
DataBody(d) == [kind |-> "data", error |-> <<>>, retryAfter |-> 0, data |-> d]

\* the response of an invocation that has not replied: only its headers are set
Pending(acao) == [status |-> 0, body |-> EmptyBody, acao |-> acao]
Reply(status, body) == [status |-> status, body |-> body]
Pass == [status |-> 0, body |-> EmptyBody]

NoRequest ==
    [variant |-> "none", method |-> "none", origin |-> Undefined, xff |-> Undefined,
     xRealIp |-> Undefined, remoteAddress |-> Undefined, body |-> Undefined]

\* pieces of a string separated by the chunk ","
RECURSIVE SplitComma(_)
SplitComma(s) ==
    IF \A i \in 1..Len(s) : s[i] # "," THEN <<s>>
    ELSE LET i == CHOOSE k \in 1..Len(s) :
                      s[k] = "," /\ \A j \in 1..(k - 1) : s[j] # ","
         IN  <<SubSeq(s, 1, i - 1)>> \o SplitComma(SubSeq(s, i + 1, Len(s)))

DefaultOrigins ==
    << <<"https://www.puckgenius.com">>, <<"https://puckgenius.com">>,
       <<"http://localhost:3000">>, <<"http://127.0.0.1:3000">> >>

getAllowedOrigins(envOrigins) ==
    IF Truthy(envOrigins)
    THEN [i \in 1..Len(SplitComma(envOrigins.v)) |-> Trim(SplitComma(envOrigins.v)[i])]
    ELSE DefaultOrigins

\* allowedOrigins.includes(origin)
Includes(list, x) == x.t = "string" /\ \E i \in 1..Len(list) : list[i] = x.v

\* the value of Access-Control-Allow-Origin set by the handler, Undefined for none
handleCORSEchoAny(variant, request, envOrigins) ==
    IF variant = "hardened" THEN request.origin ELSE Str(<<"*">>)
handleCORS(variant, request, envOrigins) ==
    IF variant = "hardened"
    THEN IF Includes(getAllowedOrigins(envOrigins), request.origin)
         THEN request.origin ELSE Undefined
    ELSE Str(<<"*">>)

getClientIP(request) ==
    LET first == IF request.xff.t = "string"
                 THEN Str(SplitComma(request.xff.v)[1]) ELSE Undefined
    IN  IF Truthy(first) THEN first.v
        ELSE IF Truthy(request.xRealIp) THEN request.xRealIp.v
        ELSE IF Truthy(request.remoteAddress) THEN request.remoteAddress.v
        ELSE <<"127.0.0.1">>

(***************************************************************************)
(* The gates of the handler, in the order of the code.                     *)
(***************************************************************************)
GateOrderRateFirst(variant) ==
    IF variant = "hardened"
    THEN <<"rateLimit", "OPTIONS", "method", "apiKey", "bodyObject", "required">>
    ELSE <<"OPTIONS", "method", "apiKey", "required">>
GateOrderBodyFirst(variant) ==
    IF variant = "hardened"
    THEN <<"OPTIONS", "method", "bodyObject", "required", "rateLimit", "apiKey">>
    ELSE <<"OPTIONS", "method", "required", "apiKey">>
GateOrder(variant) ==
    IF variant = "hardened"
    THEN <<"OPTIONS", "method", "rateLimit", "apiKey", "bodyObject", "required">>
    ELSE <<"OPTIONS", "method", "apiKey", "required">>

\* the reply of a gate that stops the request, Pass if it lets it through;
\* allowed is the result of checkRateLimit for this request
Gate(gate, request, key, allowed) ==
    CASE gate = "OPTIONS" ->
           IF request.method = "OPTIONS" THEN Reply(200, EmptyBody) ELSE Pass
      [] gate = "method" ->
           IF request.method # "POST"
           THEN Reply(405, ErrorBody(<<"Method not allowed">>)) ELSE Pass
      [] gate = "rateLimit" ->
           IF ~allowed
           THEN Reply(429, [ErrorBody(<<"Rate limit exceeded. Please wait before making more requests.">>)
                               EXCEPT !.retryAfter = 60])
           ELSE Pass
      [] gate = "apiKey" ->
           IF ~key
           THEN Reply(500, ErrorBody(<<"SERPAPI_KEY environment variable not set">>))
           ELSE Pass
      [] gate = "bodyObject" ->
           IF ~Truthy(request.body) \/ request.body.t \notin {"object", "array"}
           THEN Reply(400, ErrorBody(<<"Invalid request body">>)) ELSE Pass
      [] gate = "required" ->
           \* reading a property of null or undefined throws; the catch replies 500
           IF request.body.t \in {"null", "undefined"}
           THEN Reply(500, ErrorBody(<<"Failed to search eBay products: ", "TypeError">>))
           ELSE IF ~Truthy(Get(request.body, "_nkw")) /\ ~Truthy(Get(request.body, "category_id"))
                THEN Reply(400, ErrorBody(<<"Search query (_nkw) or category_id is required">>))
                ELSE Pass

\* index of the first gate that stops the request, 0 if every gate passes
RECURSIVE FirstStop(_, _, _, _, _)
FirstStop(gates, i, request, key, allowed) ==
    IF i > Len(gates) THEN 0
    ELSE IF Gate(gates[i], request, key, allowed).status # 0 THEN i
    ELSE FirstStop(gates, i + 1, request, key, allowed)

\* the rate-limit gate is reached: it is the stopping gate or comes before it
ReachesRateLimit(gates, stop) ==
    \E i \in 1..Len(gates) : gates[i] = "rateLimit" /\ (stop = 0 \/ i <= stop)

(***************************************************************************)
(* The query of the upstream call.                                         *)
(***************************************************************************)
\* Object.keys(searchParams), in the order the model enumerates body keys
BodyKeys == <<"_nkw", "category_id", "LH_BIN">>

\* chunks made of characters outside [\w\s.,()-]
DisallowedChunks == {"<>", "$", "&", "[", "]"}

\* value.replace(/[^\w\s.,()-]/g, '')
Sanitize(s) == SelectSeq(s, LAMBDA c : c \notin DisallowedChunks)

\* String(value)
JSString(x) ==
    CASE x.t = "string" -> x.v
      [] x.t = "number" ->
           IF x.v % 100 = 0 THEN <<ToString(x.v \div 100)>>
           ELSE IF x.v % 10 = 0
                THEN <<ToString(x.v \div 100) \o "." \o ToString((x.v % 100) \div 10)>>
                ELSE <<ToFixed2(x.v)>>
      [] x.t = "boolean" -> IF x.v THEN <<"true">> ELSE <<"false">>
      [] x.t = "null" -> <<"null">>
      [] x.t = "undefined" -> <<"undefined">>
      [] OTHER -> <<"[", "object", " ", "Object", "]">>

Skipped(value) == value.t \in {"null", "undefined"} \/ value = Str(<<>>)

\* the parameters appended for the body keys from the i-th on
RECURSIVE ForwardParams(_, _, _)
ForwardParams(variant, body, i) ==
    IF i > Len(BodyKeys) THEN <<>>
    ELSE LET key == BodyKeys[i]
             value == Get(body, key)
             text == IF variant = "hardened" THEN Sanitize(JSString(value))
                     ELSE JSString(value)
             rest == ForwardParams(variant, body, i + 1)
         IN  IF key \notin DOMAIN body.v \/ Skipped(value) THEN rest
             ELSE IF variant = "hardened" /\ text = <<>> THEN rest
             ELSE << <<key, text>> >> \o rest

BuildQuery(variant, body) ==
    << <<"engine", <<"ebay">> >>, <<"api_key", <<"SERPAPI_KEY">> >>,
       <<"ebay_domain", <<"ebay.com">> >> >> \o ForwardParams(variant, body, 1)

(***************************************************************************)
(* The response sanitizer.                                                 *)
(***************************************************************************)
\* the inline price normalisation of the basic revision
inlinePrice(price) ==
    IF Truthy(price) /\ price.t = "object"
    THEN IF Truthy(Get(price, "raw")) THEN Return(Get(price, "raw"))
         ELSE IF Truthy(Get(price, "extracted"))
              THEN IF Get(price, "extracted").t = "number"
                   THEN Return(Str(<<ToFixed2(Get(price, "extracted").v)>>))
                   ELSE Throw
              ELSE Return(price)
    ELSE Return(price)

\* the callback of organic_results.map: the clean copy of one product
cleanProductKeepShipping(variant, product) ==
    LET price == IF variant = "basic" THEN inlinePrice(Get(product, "price"))
                 ELSE cleanPriceField(variant, Get(product, "price"))
    IN  IF price.threw THEN Throw
        ELSE Return(Obj([f \in DOMAIN product.v \cup {"price"} |->
                            IF f = "price" THEN price.value ELSE product.v[f]]))
cleanProduct(variant, product) ==
    LET copy == Restrict(product.v, DOMAIN product.v \ {"shipping"})
        price == IF variant = "basic" THEN inlinePrice(Get(Obj(copy), "price"))
                 ELSE cleanPriceField(variant, Get(Obj(copy), "price"))
        \* the basic revision assigns price only inside its guard
        assigned == variant # "basic" \/ price.value # Get(Obj(copy), "price")
        fields == IF assigned THEN DOMAIN copy \cup {"price"} ELSE DOMAIN copy
    IN  IF price.threw THEN Throw
        ELSE Return(Obj([f \in fields |-> IF f = "price" THEN price.value ELSE copy[f]]))

\* the clean-up of data.organic_results
cleanResults(variant, data) ==
    LET organic == Get(data, "organic_results")
        cleaned == [i \in 1..Len(organic.v) |-> cleanProduct(variant, organic.v[i])]
        mapped == IF \E i \in 1..Len(organic.v) : cleaned[i].threw THEN Throw
                  ELSE Return([data EXCEPT !.v["organic_results"] =
                                 Arr([i \in 1..Len(organic.v) |-> cleaned[i].value])])
    IN  IF variant = "hardened"
        THEN IF Truthy(organic) /\ organic.t = "array" THEN mapped ELSE Return(data)
        ELSE IF Truthy(organic)
             THEN IF organic.t = "array" THEN mapped ELSE Throw
             ELSE Return(data)

FailedPrefix == <<"Failed to search eBay products: ">>

\* what the handler replies once response.json() has delivered data
AfterJsonAlways200(variant, data) == Reply(200, DataBody(data))
AfterJson(variant, data) ==
    IF data.t \in {"null", "undefined"}
    THEN Reply(500, ErrorBody(FailedPrefix \o <<"TypeError">>))
    ELSE IF Truthy(Get(data, "error"))
         THEN Reply(400, ErrorBody((IF variant = "hardened" THEN <<"Search failed: ">>
                                    ELSE <<"SERPAPI Error: ">>)
                                   \o JSString(Get(data, "error"))))
         ELSE IF cleanResults(variant, data).threw
              THEN Reply(500, ErrorBody(FailedPrefix \o <<"TypeError">>))
              ELSE Reply(200, DataBody(cleanResults(variant, data).value))

\* what the handler replies to upstream headers that are not ok
AfterNotOk(response) ==
    Reply(500, ErrorBody(FailedPrefix \o <<"SERPAPI request failed: ",
                                           ToString(response.status), " ">>
                                      \o response.statusText))

(***************************************************************************)
(* Handler invocations.  An invocation runs without interruption up to its *)
(* reply or its next await: the fetch, then response.json().               *)
(***************************************************************************)
Slots == 1..MaxConc

NoUpstream ==
    [phase |-> "none", ok |-> FALSE, status |-> 0, statusText |-> <<>>,
     data |-> Undefined]

WindowOf(ip) == IF ip \in DOMAIN window THEN window[ip] ELSE NoWindow

\* res.status(..).json(..) / res.status(..).end()
Respond(r, reply) ==
    /\ res' = [res EXCEPT ![r] = [status |-> reply.status, body |-> reply.body,
                                  acao |-> res[r].acao]]
    /\ sent' = [sent EXCEPT ![r] = @ + 1]

\* the handler from its entry to its reply or to the fetch
HandlerStart(r, request) ==
    LET variant == request.variant
        acao == handleCORS(variant, request, ALLOWED_ORIGINS)
        gates == GateOrder(variant)
        clientIP == getClientIP(request)
        rl == checkRateLimit(rateLimitMap, otherEntries, clientIP, now)
        stop == FirstStop(gates, 1, request, SERPAPI_KEY, rl.allowed)
        reached == ReachesRateLimit(gates, stop)
        seen == Observe(WindowOf(clientIP), now, rl.allowed)
        counted == [seen EXCEPT !.fetches = IF stop = 0 THEN UpTo(@ + 1) ELSE @]
    IN  /\ pc[r] = "idle"
        /\ req' = [req EXCEPT ![r] = request]
        /\ upstream' = [upstream EXCEPT ![r] =
                          IF stop = 0 THEN [NoUpstream EXCEPT !.phase = "called"]
                          ELSE NoUpstream]
        /\ IF stop = 0
           THEN /\ pc' = [pc EXCEPT ![r] = "fetch"]
                /\ res' = [res EXCEPT ![r] = Pending(acao)]
                /\ sent' = [sent EXCEPT ![r] = 0]
                /\ timer' = [timer EXCEPT ![r] =
                               IF variant = "hardened" THEN "armed" ELSE "none"]
                /\ query' = [query EXCEPT ![r] = BuildQuery(variant, request.body)]
           ELSE /\ pc' = [pc EXCEPT ![r] = "done"]
                /\ res' = [res EXCEPT ![r] =
                             [status |-> Gate(gates[stop], request, SERPAPI_KEY, rl.allowed).status,
                              body |-> Gate(gates[stop], request, SERPAPI_KEY, rl.allowed).body,
                              acao |-> acao]]
                /\ sent' = [sent EXCEPT ![r] = 1]
                /\ timer' = [timer EXCEPT ![r] = "none"]
                /\ query' = [query EXCEPT ![r] = <<>>]
        /\ IF reached
           THEN /\ rateLimitMap' = rl.map
                /\ otherEntries' = rl.others
                /\ window' = [ip \in DOMAIN window \cup {clientIP} |->
                                IF ip = clientIP THEN counted ELSE window[ip]]
                /\ lastCall' = [ip |-> clientIP, at |-> now, allowed |-> rl.allowed,
                                nth |-> seen.calls]
           ELSE UNCHANGED rateVars
        /\ UNCHANGED <<envVars, clockVars, priceCall>>

\* the fetch resolves: the upstream's status line and headers have arrived
FetchResolve(r, response) ==
    /\ pc[r] = "fetch"
    /\ timer' = [timer EXCEPT ![r] = IF @ = "armed" THEN "cleared" ELSE @]
    /\ upstream' = [upstream EXCEPT ![r] =
                      [@ EXCEPT !.phase = "headers", !.ok = response.ok,
                                !.status = response.status,
                                !.statusText = response.statusText]]
    /\ IF response.ok
       THEN /\ pc' = [pc EXCEPT ![r] = "json"]
            /\ UNCHANGED <<res, sent>>
       ELSE /\ pc' = [pc EXCEPT ![r] = "done"]
            /\ Respond(r, AfterNotOk(response))
    /\ UNCHANGED <<envVars, clockVars, rateVars, req, query, priceCall>>

\* the fetch rejects with a network error; the timer is left armed
FetchReject(r) ==
    /\ pc[r] = "fetch"
    /\ pc' = [pc EXCEPT ![r] = "done"]
    /\ upstream' = [upstream EXCEPT ![r] = [@ EXCEPT !.phase = "failed"]]
    /\ Respond(r, Reply(500, ErrorBody(FailedPrefix \o <<"fetch failed">>)))
    /\ UNCHANGED <<envVars, clockVars, rateVars, req, query, timer, priceCall>>

\* the 10 s timer fires: controller.abort() rejects a pending fetch or body
\* read with an AbortError, and has no effect on a settled call
TimerFire(r) ==
    /\ timer[r] = "armed"
    /\ timer' = [timer EXCEPT ![r] = "fired"]
    /\ IF pc[r] \in {"fetch", "json"}
       THEN /\ pc' = [pc EXCEPT ![r] = "done"]
            /\ upstream' = [upstream EXCEPT ![r] = [@ EXCEPT !.phase = "aborted"]]
            /\ Respond(r, Reply(408, ErrorBody(<<"Search request timed out. Please try again.">>)))
       ELSE UNCHANGED <<pc, upstream, res, sent>>
    /\ UNCHANGED <<envVars, clockVars, rateVars, req, query, priceCall>>

\* response.json() resolves with the parsed body
JsonResolve(r, data) ==
    /\ pc[r] = "json"
    /\ pc' = [pc EXCEPT ![r] = "done"]
    /\ upstream' = [upstream EXCEPT ![r] = [@ EXCEPT !.phase = "body", !.data = data]]
    /\ Respond(r, AfterJson(req[r].variant, data))
    /\ UNCHANGED <<envVars, clockVars, rateVars, req, query, timer, priceCall>>

\* response.json() rejects: the body is cut short or is not JSON
JsonReject(r) ==
    /\ pc[r] = "json"
    /\ pc' = [pc EXCEPT ![r] = "done"]
    /\ upstream' = [upstream EXCEPT ![r] = [@ EXCEPT !.phase = "failed"]]
    /\ Respond(r, Reply(500, ErrorBody(FailedPrefix \o <<"SyntaxError">>)))
    /\ UNCHANGED <<envVars, clockVars, rateVars, req, query, timer, priceCall>>

\* the invocation is over and nothing of it is pending: the slot serves the next
Release(r) ==
    /\ pc[r] = "done"
    /\ timer[r] # "armed"
    /\ pc' = [pc EXCEPT ![r] = "idle"]
    /\ req' = [req EXCEPT ![r] = NoRequest]
    /\ res' = [res EXCEPT ![r] = Pending(Undefined)]
    /\ sent' = [sent EXCEPT ![r] = 0]
    /\ timer' = [timer EXCEPT ![r] = "none"]
    /\ query' = [query EXCEPT ![r] = <<>>]
    /\ upstream' = [upstream EXCEPT ![r] = NoUpstream]
    /\ UNCHANGED <<envVars, clockVars, rateVars, priceCall>>

\* the clock advances by d ms
Tick(d) ==
    /\ ticks < MaxTicks
    /\ ticks' = ticks + 1
    /\ now' = now + d
    /\ UNCHANGED <<envVars, rateVars, invVars, priceCall>>

\* n clients with IPs never seen before make one request each, at the same
\* instant: n calls of checkRateLimit, each adding an entry, the sweep run by
\* the first of them that finds more than CLEANUP_THRESHOLD entries
OtherClients(n) ==
    LET resetTime == now + RATE_LIMIT_WINDOW_MS
        added == [rt \in DOMAIN otherEntries \cup {resetTime} |->
                    (IF rt \in DOMAIN otherEntries THEN otherEntries[rt] ELSE 0)
                    + (IF rt = resetTime THEN n ELSE 0)]
    IN  /\ MapSize(rateLimitMap, otherEntries) <= CLEANUP_THRESHOLD
        /\ IF MapSize(rateLimitMap, added) > CLEANUP_THRESHOLD
           THEN /\ rateLimitMap' = Sweep(rateLimitMap, added, now).map
                /\ otherEntries' = Sweep(rateLimitMap, added, now).others
           ELSE /\ rateLimitMap' = rateLimitMap
                /\ otherEntries' = added
        /\ UNCHANGED <<envVars, clockVars, invVars, window, lastCall, priceCall>>

\* a direct call of checkRateLimit(clientIP)
CallCheckRateLimit(clientIP) ==
    LET rl == checkRateLimit(rateLimitMap, otherEntries, clientIP, now)
        seen == Observe(WindowOf(clientIP), now, rl.allowed)
    IN  /\ rateLimitMap' = rl.map
        /\ otherEntries' = rl.others
        /\ window' = [ip \in DOMAIN window \cup {clientIP} |->
                         IF ip = clientIP THEN seen ELSE window[ip]]
        /\ lastCall' = [ip |-> clientIP, at |-> now, allowed |-> rl.allowed,
                        nth |-> seen.calls]
        /\ UNCHANGED <<envVars, clockVars, invVars, priceCall>>

\* a call of cleanPriceField(priceData) of one revision
CallCleanPriceField ==
    /\ priceCall.state = "called"
    /\ priceCall' = [priceCall EXCEPT !.state = "returned",
                        !.result = cleanPriceField(priceCall.variant, priceCall.priceData)]
    /\ UNCHANGED <<envVars, clockVars, rateVars, invVars>>

(***************************************************************************)
(* Inputs.                                                                 *)
(***************************************************************************)
Variants == {"basic", "hardened", "comprehensive"}

Methods == {"OPTIONS", "POST", "GET"}

Origins ==
    {Undefined, Str(<<"https://www.puckgenius.com">>), Str(<<"https://evil.example">>),
     Str(<<"https://puckgenius.com">>)}

EnvOrigins ==
    {Undefined, Str(<<>>),
     Str(<<"https://shop.example", ",", " ", "https://www.puckgenius.com", " ">>)}

\* the headers and socket address the client IP is resolved from
Addresses ==
    {[xff |-> Str(<<"ipA", ",", " ", "ipB">>), xRealIp |-> Undefined,
      remoteAddress |-> Str(<<"ipB">>)],
     [xff |-> Undefined, xRealIp |-> Undefined, remoteAddress |-> Undefined]}

Bodies ==
    {Null,
     Str(<<"jersey">>),
     Obj([_nkw |-> Str(<<"jersey">>)]),
     Obj([_nkw |-> Str(<<>>), category_id |-> Null]),
     Obj([LH_BIN |-> Str(<<"1">>)]),
     Obj([category_id |-> Str(<<"176985">>), LH_BIN |-> Str(<<"1", "&", "x">>)]),
     Obj([_nkw |-> Str(<<"<>">>)]),
     Obj([_nkw |-> Num(0), category_id |-> Str(<<"$">>), LH_BIN |-> Null])}

RequestsOf(variants, methods, origins, addresses, bodies) ==
    {[variant |-> v, method |-> m, origin |-> o, xff |-> a.xff, xRealIp |-> a.xRealIp,
      remoteAddress |-> a.remoteAddress, body |-> b] :
        v \in variants, m \in methods, o \in origins, a \in addresses, b \in bodies}

Requests == RequestsOf(Variants, Methods, Origins, Addresses, Bodies)

\* status lines of the upstream
Responses ==
    {[ok |-> TRUE, status |-> 200, statusText |-> <<"OK">>],
     [ok |-> FALSE, status |-> 401, statusText |-> <<"Unauthorized">>],
     [ok |-> FALSE, status |-> 503, statusText |-> <<"Service", " ", "Unavailable">>]}

Products ==
    {Obj([title |-> Str(<<"A">>), price |-> Obj([extracted_value |-> Num(2000)]),
          shipping |-> Obj([cost |-> Num(500)])]),
     Obj([title |-> Str(<<"B">>)]),
     Obj([price |-> Str(<<" ", "$9.99">>), shipping |-> Str(<<"free">>)]),
     Obj([title |-> Str(<<"D">>), price |-> Obj([extracted |-> Str(<<"12.5">>)])])}

ResultLists == UNION {[1..n -> Products] : n \in 0..MaxResults}

Meta == Obj([status |-> Str(<<"Success">>)])

\* parsed JSON bodies of the upstream
Payloads ==
    {Null,
     Obj([error |-> Str(<<"Invalid", " ", "API", " ", "key.">>)]),
     Obj([error |-> Str(<<>>), search_metadata |-> Meta]),
     Obj([search_metadata |-> Meta]),
     Obj([search_metadata |-> Meta, organic_results |-> Str(<<"none">>)])}
    \cup {Obj([search_metadata |-> Meta, organic_results |-> Arr(l)]) : l \in ResultLists}

CandidateFields ==
    {"raw", "formatted", "extracted_value", "extracted", "value", "amount", "price"}

FieldValues ==
    {Str(<<>>), Str(<<" ">>), Str(<<"$9.99">>), Num(0), Num(1250), Null, Bool(TRUE)}

PriceObjects ==
    {Obj(f) : f \in UNION {[S -> FieldValues] :
                  S \in {T \in SUBSET CandidateFields : Cardinality(T) <= MaxFields}}}

PriceInputs ==
    {Str(<<>>), Str(<<" ">>), Str(<<"$9.99">>), Str(<<" ", "$9.99", " ">>),
     Num(0), Num(4200), Null, Undefined, Bool(TRUE)} \cup PriceObjects

(***************************************************************************)
(* Specifications.                                                         *)
(***************************************************************************)
NoPriceCall ==
    [state |-> "none", variant |-> "none", priceData |-> Undefined,
     result |-> Return(Undefined)]

\* no invocation is running
InitInvocations ==
    /\ pc = [r \in Slots |-> "idle"]
    /\ req = [r \in Slots |-> NoRequest]
    /\ res = [r \in Slots |-> Pending(Undefined)]
    /\ sent = [r \in Slots |-> 0]
    /\ timer = [r \in Slots |-> "none"]
    /\ query = [r \in Slots |-> <<>>]
    /\ upstream = [r \in Slots |-> NoUpstream]

\* a fresh process: the map is empty
InitFresh ==
    /\ now = 0
    /\ ticks = 0
    /\ rateLimitMap = <<>>
    /\ otherEntries = <<>>
    /\ window = <<>>
    /\ lastCall = NoCall

\* a process in which ipA has used its whole quota at time 0 with requests
\* that did not reach the upstream
InitExhausted ==
    /\ now = 0
    /\ ticks = 0
    /\ rateLimitMap = [ip \in {<<"ipA">>} |->
                         [requests |-> RATE_LIMIT_MAX_REQUESTS,
                          resetTime |-> RATE_LIMIT_WINDOW_MS]]
    /\ otherEntries = <<>>
    /\ window = [ip \in {<<"ipA">>} |->
                   [open |-> TRUE, ends |-> RATE_LIMIT_WINDOW_MS,
                    calls |-> RATE_LIMIT_MAX_REQUESTS,
                    passed |-> RATE_LIMIT_MAX_REQUESTS, fetches |-> 0,
                    afterDenial |-> FALSE]]
    /\ lastCall = [ip |-> <<"ipA">>, at |-> 0, allowed |-> TRUE,
                   nth |-> RATE_LIMIT_MAX_REQUESTS]

\* one invocation, of any revision, with any request
Init ==
    /\ SERPAPI_KEY \in BOOLEAN
    /\ ALLOWED_ORIGINS \in EnvOrigins
    /\ InitFresh \/ InitExhausted
    /\ InitInvocations
    /\ priceCall = NoPriceCall

Next ==
    \/ \E request \in Requests : HandlerStart(1, request)
    \/ \E response \in Responses : FetchResolve(1, response)
    \/ FetchReject(1)
    \/ TimerFire(1)
    \/ \E data \in Payloads : JsonResolve(1, data)
    \/ JsonReject(1)
    \/ Tick(RATE_LIMIT_WINDOW_MS + 1)

Spec == Init /\ [][Next]_vars

\* cleanPriceField alone
InitPrice ==
    /\ SERPAPI_KEY = TRUE
    /\ ALLOWED_ORIGINS = Undefined
    /\ InitFresh
    /\ InitInvocations
    /\ priceCall \in {[state |-> "called", variant |-> v, priceData |-> p,
                       result |-> Return(Undefined)] :
                          v \in {"hardened", "comprehensive"}, p \in PriceInputs}

NextPrice == CallCleanPriceField

SpecPrice == InitPrice /\ [][NextPrice]_vars

\* checkRateLimit alone, called for one client while other clients come and go
InitRate ==
    /\ SERPAPI_KEY = TRUE
    /\ ALLOWED_ORIGINS = Undefined
    /\ InitFresh
    /\ InitInvocations
    /\ priceCall = NoPriceCall

NextRate ==
    \/ \E clientIP \in IPs : CallCheckRateLimit(clientIP)
    \/ \E d \in {1, RATE_LIMIT_WINDOW_MS} : Tick(d)
    \/ OtherClients(CLEANUP_THRESHOLD)

SpecRate == InitRate /\ [][NextRate]_vars

\* concurrent invocations of the hardened handler for one client
ConcRequests ==
    RequestsOf({"hardened"}, {"POST"}, {Undefined},
               {[xff |-> Undefined, xRealIp |-> Str(<<"ipA">>),
                 remoteAddress |-> Str(<<"ipB">>)]},
               {Obj([_nkw |-> Str(<<"jersey">>)])})

NextConc ==
    \/ \E r \in Slots, request \in ConcRequests : HandlerStart(r, request)
    \/ \E r \in Slots : FetchResolve(r, [ok |-> TRUE, status |-> 200, statusText |-> <<"OK">>])
    \/ \E r \in Slots : TimerFire(r)
    \/ \E r \in Slots : JsonResolve(r, Obj([search_metadata |-> Meta]))
    \/ \E r \in Slots : Release(r)
    \/ Tick(RATE_LIMIT_WINDOW_MS + 1)

SpecConc == InitRate /\ [][NextConc]_vars

(***************************************************************************)
(* Properties of the handler (specification Spec).                         *)
(***************************************************************************)
Started(r) == pc[r] = "idle" /\ pc'[r] # "idle"

Replied(r) == pc[r] = "done" /\ sent[r] = 1

\* the body has neither a non-empty _nkw nor a non-empty category_id
MissingBoth(body) ==
    ~(body.t = "object"
      /\ (Truthy(Get(body, "_nkw")) \/ Truthy(Get(body, "category_id"))))

\* the client has an entry whose window is still running and whose quota is used up
QuotaExhausted(ip) ==
    /\ ip \in DOMAIN rateLimitMap
    /\ now <= rateLimitMap[ip].resetTime
    /\ rateLimitMap[ip].requests >= RATE_LIMIT_MAX_REQUESTS

\* C1: every POST request whose body has neither a non-empty _nkw nor a
\* non-empty category_id (a null body included) that gets as far as body
\* validation (the API key is set, the rate limiter let it pass) is answered
\* 400, and no upstream call is made for it.
C1_MissingParamsRejected ==
    \A r \in Slots :
        (Replied(r) /\ req[r].method = "POST" /\ MissingBoth(req[r].body)
         /\ SERPAPI_KEY /\ res[r].status # 429)
        => (res[r].status = 400 /\ upstream[r].phase = "none")

\* C3: a step that starts an OPTIONS request ends it with status 200 and an
\* empty body, leaves the rate-limit map as it was and makes no upstream call,
\* whatever the state it starts in.
C3_OptionsShortCircuit ==
    [][\A r \in Slots :
          (Started(r) /\ req'[r].method = "OPTIONS")
          => /\ pc'[r] = "done"
             /\ sent'[r] = 1
             /\ res'[r].status = 200
             /\ res'[r].body = EmptyBody
             /\ rateLimitMap' = rateLimitMap
             /\ otherEntries' = otherEntries
             /\ upstream'[r].phase = "none"
             /\ query'[r] = <<>>]_vars

\* an OPTIONS request was answered although its client's quota is used up and
\* the API key is missing
C3_Witness ==
    \E r \in Slots :
        /\ Replied(r)
        /\ req[r].variant = "hardened"
        /\ req[r].method = "OPTIONS"
        /\ ~SERPAPI_KEY
        /\ QuotaExhausted(getClientIP(req[r]))
        /\ res[r].status = 200

\* the status the hardened handler owes a request in the current state: that
\* of the first gate the request fails, 0 when it passes them all
OwedStatus(request) ==
    IF request.method = "OPTIONS" THEN 200
    ELSE IF request.method # "POST" THEN 405
    ELSE IF QuotaExhausted(getClientIP(request)) THEN 429
    ELSE IF ~SERPAPI_KEY THEN 500
    ELSE IF MissingBoth(request.body) THEN 400
    ELSE 0

\* C4: a step that starts a request of the hardened handler answers with the
\* status of the first gate the request fails in the order OPTIONS (200),
\* method (405), rate limit (429, retryAfter 60), API key (500), body (400);
\* a request stopped before the rate-limit gate leaves the map as it was, a
\* POST request that is not rate limited is counted whatever the later gates
\* say, and the upstream call is started exactly when every gate passes.
C4_GateOrder ==
    [][\A r \in Slots :
          (Started(r) /\ req'[r].variant = "hardened")
          => LET request == req'[r]
                 ip == getClientIP(request)
                 owed == OwedStatus(request)
             IN  /\ res'[r].status = owed
                 /\ (owed = 0) <=> (pc'[r] = "fetch" /\ upstream'[r].phase = "called")
                 /\ (owed # 0) <=> (pc'[r] = "done" /\ upstream'[r].phase = "none")
                 /\ owed = 429 => res'[r].body.retryAfter = 60
                 /\ owed \in {200, 405, 429} => rateLimitMap' = rateLimitMap
                 /\ owed \in {500, 400, 0}
                    => /\ ip \in DOMAIN rateLimitMap'
                       /\ rateLimitMap'[ip].requests =
                            IF ip \in DOMAIN rateLimitMap
                               /\ now <= rateLimitMap[ip].resetTime
                            THEN rateLimitMap[ip].requests + 1 ELSE 1]_vars

\* a POST request that fails the rate-limit gate, the API-key gate and the
\* body gate at once was answered 429
C4_Witness ==
    \E r \in Slots :
        /\ Replied(r)
        /\ req[r].variant = "hardened"
        /\ req[r].method = "POST"
        /\ ~SERPAPI_KEY
        /\ MissingBoth(req[r].body)
        /\ res[r].status = 429

\* C5: in the hardened handler the upstream call is bounded by the timer
\* until it completes, headers and body: an invocation that is still waiting
\* for the upstream has its timer armed.
C5_CallBoundedByTimer ==
    \A r \in Slots :
        (req[r].variant = "hardened" /\ pc[r] \in {"fetch", "json"})
        => timer[r] = "armed"

\* the upstream answered with a status that is not ok
UpstreamNotOk(r) == upstream[r].phase = "headers" /\ ~upstream[r].ok

\* the upstream delivered a JSON object with an error field
UpstreamErrorField(r) ==
    /\ upstream[r].phase = "body"
    /\ upstream[r].data.t = "object"
    /\ "error" \in DOMAIN upstream[r].data.v

\* the error text of the reply ends with the given message
EndsWith(text, msg) ==
    /\ Len(text) >= Len(msg)
    /\ SubSeq(text, Len(text) - Len(msg) + 1, Len(text)) = msg

\* C6 as stated: every upstream error, a non-2xx status or an error field in
\* a 200 body, is answered 400 with the upstream's message appended.
C6_Original ==
    \A r \in Slots :
        (Replied(r) /\ (UpstreamNotOk(r) \/ UpstreamErrorField(r)))
        => res[r].status = 400

\* C6 amended: an upstream body with a non-empty error field is answered 400,
\* the error text ending with the upstream's error; an upstream status that is
\* not ok is answered 500, the error text being the generic prefix followed by
\* "SERPAPI request failed: <status> <statusText>".
C6_UpstreamErrors ==
    \A r \in Slots :
        Replied(r)
        => /\ (UpstreamErrorField(r) /\ Truthy(Get(upstream[r].data, "error")))
              => /\ res[r].status = 400
                 /\ res[r].body.kind = "error"
                 /\ Len(res[r].body.error) = 1 + Len(Get(upstream[r].data, "error").v)
                 /\ EndsWith(res[r].body.error, Get(upstream[r].data, "error").v)
           /\ UpstreamNotOk(r)
              => /\ res[r].status = 500
                 /\ res[r].body.kind = "error"
                 /\ res[r].body.error[1] = "Failed to search eBay products: "
                 /\ res[r].body.error[2] = "SERPAPI request failed: "
                 /\ EndsWith(res[r].body.error,
                             <<ToString(upstream[r].status), " ">> \o upstream[r].statusText)

\* an upstream body with an error field was delivered and answered 400
C6_Witness ==
    \E r \in Slots :
        /\ Replied(r)
        /\ UpstreamErrorField(r)
        /\ Truthy(Get(upstream[r].data, "error"))
        /\ res[r].status = 400

\* a 200 reply to an upstream body whose organic_results is a sequence
CleanedReply(r) ==
    /\ Replied(r)
    /\ res[r].status = 200
    /\ res[r].body.kind = "data"
    /\ upstream[r].phase = "body"
    /\ upstream[r].data.t = "object"
    /\ Get(upstream[r].data, "organic_results").t = "array"

ResultsIn(r) == Get(upstream[r].data, "organic_results").v

ResultsOut(r) == Get(res[r].body.data, "organic_results").v

\* the fields outside organic_results are those of the upstream body, unchanged
PayloadFrame(r) ==
    /\ res[r].body.data.t = "object"
    /\ DOMAIN res[r].body.data.v = DOMAIN upstream[r].data.v
    /\ \A f \in DOMAIN upstream[r].data.v \ {"organic_results"} :
           res[r].body.data.v[f] = upstream[r].data.v[f]
    /\ Get(res[r].body.data, "organic_results").t = "array"
    /\ Len(ResultsOut(r)) = Len(ResultsIn(r))

AllowList ==
    IF ALLOWED_ORIGINS.t = "string" /\ ALLOWED_ORIGINS.v # <<>>
    THEN {Trim(piece) : piece \in {SplitComma(ALLOWED_ORIGINS.v)[i] :
                                      i \in 1..Len(SplitComma(ALLOWED_ORIGINS.v))}}
    ELSE {<<"https://www.puckgenius.com">>, <<"https://puckgenius.com">>,
          <<"http://localhost:3000">>, <<"http://127.0.0.1:3000">>}

OriginAllowed(request) == request.origin.t = "string" /\ request.origin.v \in AllowList

\* C9 as stated: every response carries Access-Control-Allow-Origin exactly
\* when the request's Origin is in the allow-list, and then it is that origin.
C9_Original ==
    \A r \in Slots :
        Replied(r)
        => /\ (res[r].acao # Undefined) <=> OriginAllowed(req[r])
           /\ res[r].acao # Undefined => res[r].acao = req[r].origin

\* C9 amended: every response of the hardened handler carries
\* Access-Control-Allow-Origin exactly when the request's Origin is in the
\* allow-list, and then it is that origin; every response of the basic and
\* of the comprehensive handler carries Access-Control-Allow-Origin: *.
C9_AllowOrigin ==
    \A r \in Slots :
        Replied(r)
        => IF req[r].variant = "hardened"
           THEN /\ (res[r].acao # Undefined) <=> OriginAllowed(req[r])
                /\ res[r].acao # Undefined => res[r].acao = req[r].origin
           ELSE res[r].acao = Str(<<"*">>)

\* with ALLOWED_ORIGINS set, the hardened handler echoed an origin that the
\* variable lists with blanks around it, on an error response
C9_Witness ==
    \E r \in Slots :
        /\ Replied(r)
        /\ req[r].variant = "hardened"
        /\ Truthy(ALLOWED_ORIGINS)
        /\ req[r].origin = Str(<<"https://www.puckgenius.com">>)
        /\ res[r].acao = req[r].origin
        /\ res[r].status >= 400

(***************************************************************************)
(* Properties of cleanPriceField (specification SpecPrice).                *)
(***************************************************************************)
\* C8: cleanPriceField returns for every input, and what it returns is a
\* non-empty string.
C8_Total ==
    priceCall.state = "returned"
    => /\ ~priceCall.result.threw
       /\ priceCall.result.value.t = "string"
       /\ priceCall.result.value.v # <<>>

(***************************************************************************)
(* Properties of the rate limiter (specifications SpecRate and SpecConc).  *)
(***************************************************************************)
\* C2: a call of checkRateLimit is allowed exactly when it is one of the
\* first RATE_LIMIT_MAX_REQUESTS calls of its client's window; the call that
\* opens a window, the first ever or the first after the window before has
\* elapsed, leaves the counter at 1 and the window RATE_LIMIT_WINDOW_MS long;
\* every other allowed call adds 1 to the counter and keeps the window's end.
C2_FixedWindow ==
    [][lastCall' # lastCall
       => LET ip == lastCall'.ip
              nth == lastCall'.nth
          IN  /\ lastCall'.allowed <=> nth <= RATE_LIMIT_MAX_REQUESTS
              /\ nth = 1
                 => /\ lastCall'.allowed
                    /\ rateLimitMap'[ip] =
                         [requests |-> 1, resetTime |-> now + RATE_LIMIT_WINDOW_MS]
              /\ (1 < nth /\ nth <= RATE_LIMIT_MAX_REQUESTS)
                 => /\ rateLimitMap'[ip].requests = nth
                    /\ rateLimitMap'[ip].resetTime = rateLimitMap[ip].resetTime
                    /\ now <= rateLimitMap[ip].resetTime
              /\ nth > RATE_LIMIT_MAX_REQUESTS => rateLimitMap' = rateLimitMap]_vars

\* a client that was turned away in one window has opened the next with an
\* allowed call
C2_Witness ==
    /\ lastCall.ip \in DOMAIN window
    /\ lastCall.allowed
    /\ lastCall.nth = 1
    /\ window[lastCall.ip].afterDenial
    /\ lastCall.ip \in DOMAIN rateLimitMap
    /\ rateLimitMap[lastCall.ip].requests = 1

\* C10: whatever the interleaving of the invocations, every counter stays
\* between 0 and RATE_LIMIT_MAX_REQUESTS, no client passes the check more than
\* RATE_LIMIT_MAX_REQUESTS times in one window nor starts more upstream calls
\* than that, and while a window runs its counter is the number of checks
\* passed in it.
C10_AtomicCount ==
    /\ \A ip \in DOMAIN rateLimitMap :
           /\ rateLimitMap[ip].requests >= 0
           /\ rateLimitMap[ip].requests <= RATE_LIMIT_MAX_REQUESTS
    /\ \A ip \in DOMAIN window :
           /\ window[ip].passed <= RATE_LIMIT_MAX_REQUESTS
           /\ window[ip].fetches <= RATE_LIMIT_MAX_REQUESTS
           /\ (WindowOpen(window[ip], now) /\ ip \in DOMAIN rateLimitMap)
              => /\ rateLimitMap[ip].requests = window[ip].passed
                 /\ rateLimitMap[ip].resetTime = window[ip].ends

\* while one invocation waits for the upstream, another of the same client
\* has been turned away with the quota used up
C10_Witness ==
    \E r1 \in Slots, r2 \in Slots :
        /\ pc[r1] \in {"fetch", "json"}
        /\ pc[r2] = "done"
        /\ res[r2].status = 429
        /\ getClientIP(req[r1]) = getClientIP(req[r2])
        /\ window[getClientIP(req[r1])].passed = RATE_LIMIT_MAX_REQUESTS
        /\ window[getClientIP(req[r1])].fetches = RATE_LIMIT_MAX_REQUESTS

(***************************************************************************)
(* Properties of the upstream query (specification Spec).                  *)
(***************************************************************************)
\* the query carries the parameter with a non-empty value
Carries(q, key) == \E i \in 1..Len(q) : q[i][1] = key /\ q[i][2] # <<>>

\* C11: every upstream call started by the hardened handler carries _nkw or
\* category_id with a non-empty value.
C11_QueryKeepsSearchKey ==
    \A r \in Slots :
        (req[r].variant = "hardened" /\ upstream[r].phase # "none")
        => (Carries(query[r], "_nkw") \/ Carries(query[r], "category_id"))

====
